---- MODULE Spec2Model ----
(***************************************************************************)
(* github-repo-qualifier: the scan-and-score pipeline.                     *)
(*                                                                         *)
(*   - the quality scorer calculateRepositoryQuality and the scorer the    *)
(*     scan handler carries (calculateQualityScore), as pure operators     *)
(*     over strings;                                                       *)
(*   - the paginated fetcher fetchGitHubRepositories, as a state machine   *)
(*     against a nondeterministic provider;                                *)
(*   - the scan handler scanGitHubRepositories with its own single-request *)
(*     fetch and the two tables it writes;                                 *)
(*   - the history reader getScanHistory;                                  *)
(*   - the sessions of the identities: login, logout, and the context and  *)
(*     middleware every protected procedure runs behind.                   *)
(*                                                                         *)
(* Strings are TLA+ strings; a character is a string of length one.        *)
(***************************************************************************)
EXTENDS Integers, Sequences, FiniteSets, TLC

VARIABLES
    repo,          \* scorer: the GitHubRepositoryData record being scored
    scored,        \* scorer: which of the two scorers have run on repo
    quality,       \* scorer: result of calculateRepositoryQuality(repo)
    scanQuality,   \* scorer: result of calculateQualityScore(repo)
    fetch,         \* fetcher: locals of one fetchGitHubRepositories call
    provider,      \* fetcher: what the provider has been asked and has served
    scans,         \* scan handler: locals of each scanGitHubRepositories call
    db,            \* scan handler: scan_sessions and scanned_repositories
    history,       \* history: locals of each getScanHistory call
    calls,         \* scorer: the calls of calculateRepositoryQuality made so far
    authDb,        \* sessions: the sessions table, its sequence and the clock
    requests,      \* sessions: the request each client has at the server
    issued         \* sessions: every session ever created, and whether a
                   \* logout of it has returned success

vars == <<repo, scored, quality, scanQuality, fetch, provider, scans, db, history, calls,
          authDb, requests, issued>>

scorerVars == <<repo, scored, quality, scanQuality>>
fetcherVars == <<fetch, provider>>
scanVars == <<scans, db>>
historyVars == <<history, calls>>
authVars == <<authDb, requests, issued>>

(***************************************************************************)
(* Bounds of the model.                                                    *)
(***************************************************************************)
MaxNameTokens == 2
MaxEntries == 2
MaxReadmeTokens == 2
MaxPages == 2
MaxPageSize == 2
MaxScans == 2
MaxTime == 2
MaxSessions == 2
MaxRows == 2
MaxCalls == 3
MaxLogins == 2

(***************************************************************************)
(* Strings.                                                                *)
(***************************************************************************)
Char(s, i) == SubSeq(s, i, i)

UpperCaseLetters == "ABCDEFGHIJKLMNOPQRSTUVWXYZ"
LowerCaseLetters == "abcdefghijklmnopqrstuvwxyz"
Digits == "0123456789"

IndexOfChar(s, c) ==
    IF \E i \in 1..Len(s) : Char(s, i) = c
    THEN CHOOSE i \in 1..Len(s) : Char(s, i) = c /\ \A j \in 1..(i - 1) : Char(s, j) # c
    ELSE 0

UpperCaseSet == {Char(UpperCaseLetters, i) : i \in 1..Len(UpperCaseLetters)}

LowerCaseOf ==
    [c \in UpperCaseSet |->
        Char(LowerCaseLetters, CHOOSE i \in 1..Len(UpperCaseLetters) : Char(UpperCaseLetters, i) = c)]

toLowerCaseChar(c) ==
    IF c \in UpperCaseSet THEN LowerCaseOf[c] ELSE c

\* String.prototype.toLowerCase, character by character (halving keeps the
\* recursion shallow on long texts)
RECURSIVE toLowerCase(_)
toLowerCase(s) ==
    IF Len(s) = 0 THEN ""
    ELSE IF Len(s) = 1 THEN toLowerCaseChar(s)
    ELSE toLowerCase(SubSeq(s, 1, Len(s) \div 2))
            \o toLowerCase(SubSeq(s, (Len(s) \div 2) + 1, Len(s)))

\* String.prototype.includes
includes(s, w) ==
    \E i \in 1..(Len(s) - Len(w) + 1) : SubSeq(s, i, i + Len(w) - 1) = w

\* String.prototype.startsWith
startsWith(s, w) ==
    Len(s) >= Len(w) /\ SubSeq(s, 1, Len(w)) = w

RECURSIVE Concat(_)
Concat(ss) ==
    IF Len(ss) = 0 THEN "" ELSE Head(ss) \o Concat(Tail(ss))

\* The regular expression classes \s and . over the characters of the model.
WhiteSpace == {" ", "\n", "\t", "\r"}
LineTerminator == {"\n", "\r"}

IsBlankRun(s, i, j) == \A k \in i..j : Char(s, k) \in WhiteSpace
IsDotRun(s, i, j) == \A k \in i..j : Char(s, k) \notin LineTerminator

\* content.split('\n')[0]
FirstLine(s) ==
    LET i == IndexOfChar(s, "\n")
    IN  IF i = 0 THEN s ELSE SubSeq(s, 1, i - 1)

\* /^\d+$/
IsAllDigits(s) ==
    Len(s) > 0 /\ \A i \in 1..Len(s) : IndexOfChar(Digits, Char(s, i)) # 0

\* /^[a-zA-Z]$/
IsSingleLetter(s) ==
    Len(s) = 1 /\ IndexOfChar(LowerCaseLetters \o UpperCaseLetters, s) # 0

\* Array.prototype.find, as the index of the first element whose predicate
\* value is TRUE (0: none); matches[i] is the predicate applied to element i
FindIndex(matches) ==
    IF \E i \in 1..Len(matches) : matches[i]
    THEN CHOOSE i \in 1..Len(matches) :
            matches[i] /\ \A j \in 1..(i - 1) : ~matches[j]
    ELSE 0

(***************************************************************************)
(* The scorer of calculateRepositoryQuality.                               *)
(*                                                                         *)
(* A repository record is [name, hasObject, entries]: hasObject is FALSE   *)
(* for object = null.  A root entry is [name, type, hasText, text]:        *)
(* hasText is FALSE when the entry has no object or its object no text.    *)
(***************************************************************************)
testWords == <<"test", "boilerplate", "starter">>

\* Faulty variant: the name is not lower-cased
analyzeRepositoryName_CaseSensitive(name) ==
    IF \E k \in 1..Len(testWords) : includes(name, testWords[k])
    THEN 0 ELSE 20

analyzeRepositoryName(name) ==
    LET lowerName == toLowerCase(name)
    IN  IF \E k \in 1..Len(testWords) : includes(lowerName, testWords[k])
        THEN 0 ELSE 20

\* Faulty variant: a repository without root entries is given a default tree
entriesOf_DefaultTree(repoData) ==
    IF repoData.hasObject /\ Len(repoData.entries) > 0
    THEN repoData.entries
    ELSE <<[name |-> "README.md", type |-> "blob", hasText |-> FALSE, text |-> ""]>>

\* repoData.object?.entries || []
entriesOf(repoData) ==
    IF repoData.hasObject THEN repoData.entries ELSE <<>>

\* Faulty variant: the entry type is not looked at
IsReadmeEntry_AnyType(entry) ==
    toLowerCase(entry.name) = "readme.md"

IsReadmeEntry(entry) ==
    toLowerCase(entry.name) = "readme.md" /\ entry.type = "blob"

\* Faulty variant: an entry without content is not taken for the README
findReadmeFile_WithContent(entries) ==
    FindIndex([i \in 1..Len(entries) |->
        IsReadmeEntry(entries[i]) /\ entries[i].hasText /\ entries[i].text # ""])

findReadmeFile(entries) == FindIndex([i \in 1..Len(entries) |-> IsReadmeEntry(entries[i])])

\* Faulty variant: any name starting with "license"
IsLicenseEntry_Prefix(entry) ==
    startsWith(toLowerCase(entry.name), "license") /\ entry.type = "blob"

IsLicenseEntry(entry) ==
    LET name == toLowerCase(entry.name)
    IN  (name = "license" \/ name = "license.md") /\ entry.type = "blob"

findLicenseFile(entries) == FindIndex([i \in 1..Len(entries) |-> IsLicenseEntry(entries[i])])

\* /!\[.*?\]\(.*?\)/.test(content)
badgeRegexTest(content) ==
    \E i \in 1..Len(content) : \E j \in (i + 2)..Len(content) :
        \E k \in (j + 2)..Len(content) :
            /\ SubSeq(content, i, i + 1) = "!["
            /\ IsDotRun(content, i + 2, j - 1)
            /\ SubSeq(content, j, j + 1) = "]("
            /\ IsDotRun(content, j + 2, k - 1)
            /\ Char(content, k) = ")"

\* new RegExp(`#+\\s*.*${sectionName}`, 'i').test(content)
hasSectionHeading(content, sectionName) ==
    LET n == Len(sectionName)
        lower == toLowerCase(content)
        word == toLowerCase(sectionName)
    IN  \E i \in 1..Len(content) :
            /\ Char(content, i) = "#"
            /\ \E j \in (i + 1)..(Len(content) + 1) :
                /\ IsBlankRun(content, i + 1, j - 1)
                /\ \E k \in j..(Len(content) - n + 1) :
                    /\ SubSeq(lower, k, k + n - 1) = word
                    /\ IsDotRun(content, j, k - 1)

\* Faulty variant: the total is capped at the documented 50 points
analyzeReadmeContent_CappedTotal(content) ==
    LET lowerContent == toLowerCase(content)
        quickPresentation == IF Len(content) > 50 THEN 10 ELSE 0
        badges == IF badgeRegexTest(content) THEN 10 ELSE 0
        installationSection == IF hasSectionHeading(lowerContent, "installation") THEN 8 ELSE 0
        usageSection == IF hasSectionHeading(lowerContent, "usage") THEN 8 ELSE 0
        goalSection == IF hasSectionHeading(lowerContent, "goal") THEN 7 ELSE 0
        roadmapSection == IF hasSectionHeading(lowerContent, "roadmap") THEN 7 ELSE 0
        licenceSection == IF hasSectionHeading(lowerContent, "licen") THEN 10 ELSE 0
        sum == quickPresentation + badges + installationSection + usageSection
               + goalSection + roadmapSection + licenceSection
    IN  [quickPresentation |-> quickPresentation,
         badges |-> badges,
         installationSection |-> installationSection,
         usageSection |-> usageSection,
         goalSection |-> goalSection,
         roadmapSection |-> roadmapSection,
         licenceSection |-> licenceSection,
         total |-> IF sum > 50 THEN 50 ELSE sum]

analyzeReadmeContent(content) ==
    LET lowerContent == toLowerCase(content)
        quickPresentation == IF Len(content) > 50 THEN 10 ELSE 0
        badges == IF badgeRegexTest(content) THEN 10 ELSE 0
        installationSection == IF hasSectionHeading(lowerContent, "installation") THEN 8 ELSE 0
        usageSection == IF hasSectionHeading(lowerContent, "usage") THEN 8 ELSE 0
        goalSection == IF hasSectionHeading(lowerContent, "goal") THEN 7 ELSE 0
        roadmapSection == IF hasSectionHeading(lowerContent, "roadmap") THEN 7 ELSE 0
        licenceSection == IF hasSectionHeading(lowerContent, "licen") THEN 10 ELSE 0
    IN  [quickPresentation |-> quickPresentation,
         badges |-> badges,
         installationSection |-> installationSection,
         usageSection |-> usageSection,
         goalSection |-> goalSection,
         roadmapSection |-> roadmapSection,
         licenceSection |-> licenceSection,
         total |-> quickPresentation + badges + installationSection + usageSection
                   + goalSection + roadmapSection + licenceSection]

\* Faulty variant: the badge pattern is one global-flag regex shared by all
\* calls, so a call that follows a call that matched does not match
calculateRepositoryQuality_SharedRegex(repoData) ==
    LET repositoryNameScore == analyzeRepositoryName(repoData.name)
        readmeFile == findReadmeFile(entriesOf(repoData))
        readmeExists == IF readmeFile # 0 THEN 10 ELSE 0
        readmeText == IF readmeFile # 0 /\ entriesOf(repoData)[readmeFile].hasText
                      THEN entriesOf(repoData)[readmeFile].text ELSE ""
        analyzed == analyzeReadmeContent(readmeText)
        matchedBefore == calls # <<>> /\ calls[Len(calls)].result.readmeContent.badges = 10
        readmeContent ==
            IF matchedBefore
            THEN [analyzed EXCEPT !.badges = 0, !.total = analyzed.total - analyzed.badges]
            ELSE analyzed
        licenseFile == IF findLicenseFile(entriesOf(repoData)) # 0 THEN 20 ELSE 0
    IN  [repositoryName |-> repositoryNameScore,
         readmeExists |-> readmeExists,
         readmeContent |-> readmeContent,
         licenseFile |-> licenseFile,
         totalScore |-> repositoryNameScore + readmeExists + readmeContent.total + licenseFile]

calculateRepositoryQuality(repoData) ==
    LET repositoryNameScore == analyzeRepositoryName(repoData.name)
        readmeFile == findReadmeFile(entriesOf(repoData))
        readmeExists == IF readmeFile # 0 THEN 10 ELSE 0
        \* readmeFile?.object?.text || ''
        readmeText == IF readmeFile # 0 /\ entriesOf(repoData)[readmeFile].hasText
                      THEN entriesOf(repoData)[readmeFile].text ELSE ""
        readmeContent == analyzeReadmeContent(readmeText)
        licenseFile == IF findLicenseFile(entriesOf(repoData)) # 0 THEN 20 ELSE 0
    IN  [repositoryName |-> repositoryNameScore,
         readmeExists |-> readmeExists,
         readmeContent |-> readmeContent,
         licenseFile |-> licenseFile,
         totalScore |-> repositoryNameScore + readmeExists + readmeContent.total + licenseFile]

(***************************************************************************)
(* The scorer of the scan handler (analyzeRepositoryQuality).              *)
(***************************************************************************)
defaultNames == {"hello-world", "test", "my-project", "untitled"}

Min(a, b) == IF a < b THEN a ELSE b

calculateRepositoryNameScore(name) ==
    LET notTrivial == IF Len(name) > 2 /\ ~IsAllDigits(name) /\ ~IsSingleLetter(name)
                      THEN 5 ELSE 0
        separators == IF includes(name, "-") \/ includes(name, "_") THEN 5 ELSE 0
        length == IF Len(name) >= 5 /\ Len(name) <= 50 THEN 5 ELSE 0
        notDefault == IF toLowerCase(name) \notin defaultNames THEN 5 ELSE 0
    IN  Min(notTrivial + separators + length + notDefault, 20)

scanAnalyzeReadmeContent(content) ==
    LET lowerContent == toLowerCase(content)
        quickPresentation ==
            IF Len(content) > 100 /\ Len(FirstLine(content)) > 10 THEN 10 ELSE 0
        badges ==
            IF includes(content, "![") \/ includes(content, "https://img.shields.io")
            THEN 10 ELSE 0
        installationSection ==
            IF \/ includes(lowerContent, "install")
               \/ includes(lowerContent, "setup")
               \/ includes(lowerContent, "getting started")
            THEN 8 ELSE 0
        usageSection ==
            IF \/ includes(lowerContent, "usage")
               \/ includes(lowerContent, "example")
               \/ includes(lowerContent, "how to use")
            THEN 8 ELSE 0
        goalSection ==
            IF \/ includes(lowerContent, "goal")
               \/ includes(lowerContent, "purpose")
               \/ includes(lowerContent, "about")
               \/ includes(lowerContent, "description")
            THEN 7 ELSE 0
        roadmapSection ==
            IF \/ includes(lowerContent, "roadmap")
               \/ includes(lowerContent, "todo")
               \/ includes(lowerContent, "future")
            THEN 7 ELSE 0
        licenceSection ==
            IF includes(lowerContent, "license") \/ includes(lowerContent, "licence")
            THEN 10 ELSE 0
    IN  [quickPresentation |-> quickPresentation,
         badges |-> badges,
         installationSection |-> installationSection,
         usageSection |-> usageSection,
         goalSection |-> goalSection,
         roadmapSection |-> roadmapSection,
         licenceSection |-> licenceSection,
         total |-> quickPresentation + badges + installationSection + usageSection
                   + goalSection + roadmapSection + licenceSection]

ZeroReadmeContent ==
    [quickPresentation |-> 0, badges |-> 0, installationSection |-> 0,
     usageSection |-> 0, goalSection |-> 0, roadmapSection |-> 0,
     licenceSection |-> 0, total |-> 0]

IsScanReadmeEntry(file) ==
    toLowerCase(file.name) = "readme.md" \/ toLowerCase(file.name) = "readme"

IsScanLicenseEntry(file) ==
    startsWith(toLowerCase(file.name), "license") \/ startsWith(toLowerCase(file.name), "licence")

calculateQualityScore(repoData) ==
    LET repositoryNameScore == calculateRepositoryNameScore(repoData.name)
        files == entriesOf(repoData)
        readmeFile == FindIndex([i \in 1..Len(files) |-> IsScanReadmeEntry(files[i])])
        licenseFile == FindIndex([i \in 1..Len(files) |-> IsScanLicenseEntry(files[i])])
        readmeExists == IF readmeFile # 0 THEN 10 ELSE 0
        \* readmeFile?.object?.text ? analyzeReadmeContent(text) : all zero
        readmeContent ==
            IF readmeFile # 0 /\ files[readmeFile].hasText /\ files[readmeFile].text # ""
            THEN scanAnalyzeReadmeContent(files[readmeFile].text)
            ELSE ZeroReadmeContent
        licenseFileScore == IF licenseFile # 0 THEN 20 ELSE 0
    IN  [repositoryName |-> repositoryNameScore,
         readmeExists |-> readmeExists,
         readmeContent |-> readmeContent,
         licenseFile |-> licenseFileScore,
         totalScore |-> repositoryNameScore + readmeExists + readmeContent.total
                        + licenseFileScore]

(***************************************************************************)
(* Repository records the scorers are applied to.                          *)
(***************************************************************************)
SeqsUpTo(S, n) == UNION {[1..k -> S] : k \in 0..n}

NameTokens == {"Te", "st", "boilerplate", "Starter", "app", "-"}

RepositoryNames ==
    {Concat(ts) : ts \in SeqsUpTo(NameTokens, MaxNameTokens) \ {<<>>}}

SampleNames == {"awesome-project", "test-project"}

Filler50 == "This project does many things for its developers. "

ReadmeTokens ==
    {"#", "## ", "\n", "# Title\n", "see #1 ", "x",
     "Usage", "installation", "Goal", "ROADMAP", "Licence", "license",
     "![b](u)", "https://img.shields.io", Filler50}

\* README of the test "should analyze README content correctly"
FullReadme ==
    "# Awesome Project\n\n![Build Status](https://img.shields.io/badge/build-passing-green)\n\nThis is a comprehensive project that does amazing things. It provides excellent functionality for developers.\n\n## Installation\n\nRun npm install to get started.\n\n## Usage  \n\nUse this project by importing the main module.\n\n## Goal\n\nThe goal is to create an awesome tool.\n\n## Roadmap\n\n- Feature 1\n- Feature 2\n\n## License\n\nMIT License applies to this project.\n"

\* README of the scan handler's tests
ScanTestReadme ==
    "# Awesome Project\n\nThis is a great project!\n\n## Installation\n\nRun npm install\n\n## Usage\n\nJust use it!\n\n## License\n\nMIT License"

\* Installation, Usage and License headings, a badge, more than 50 characters
ThreeSectionReadme ==
    "# Awesome Project\n\n![Build](https://ci/b.svg)\n\nA project.\n\n## Installation\n\nnpm i\n\n## Usage\n\nRun it.\n\n## License\n\nMIT\n"

ReadmeTexts ==
    {Concat(ts) : ts \in SeqsUpTo(ReadmeTokens, MaxReadmeTokens)}
        \cup {FullReadme, ScanTestReadme, ThreeSectionReadme, "Short readme"}

Entry(name, type, hasText, text) ==
    [name |-> name, type |-> type, hasText |-> hasText, text |-> text]

ReadmeWith(text) == Entry("README.md", "blob", TRUE, text)

EntryPool ==
    {ReadmeWith("Short readme"),
     ReadmeWith(""),
     Entry("README.md", "blob", FALSE, ""),
     Entry("README.md", "tree", FALSE, ""),
     Entry("ReadMe.MD", "blob", TRUE, "## Usage"),
     Entry("readme", "blob", TRUE, "## Usage"),
     Entry("LICENSE", "blob", FALSE, ""),
     Entry("LICENSE", "blob", TRUE, "MIT License..."),
     Entry("license", "tree", FALSE, ""),
     Entry("LICENCE", "blob", FALSE, ""),
     Entry("LICENSE.txt", "blob", FALSE, ""),
     Entry("License.md", "blob", TRUE, "MIT"),
     Entry("src", "tree", FALSE, "")}

SampleEntryLists ==
    {<<>>,
     <<ReadmeWith("## Usage"), Entry("LICENSE", "blob", FALSE, "")>>,
     <<Entry("src", "tree", FALSE, "")>>}

Repo(name, hasObject, entries) ==
    [name |-> name, hasObject |-> hasObject, entries |-> entries]

\* Every name with a few root trees, every root tree with a few names, and
\* every README text in a README.md entry.
Repositories ==
    {Repo(n, TRUE, es) : n \in RepositoryNames, es \in SampleEntryLists}
        \cup {Repo(n, TRUE, es) : n \in SampleNames, es \in SeqsUpTo(EntryPool, MaxEntries)}
        \cup {Repo(n, FALSE, <<>>) : n \in SampleNames}
        \cup {Repo("awesome-project", TRUE, <<ReadmeWith(t)>>) : t \in ReadmeTexts}
        \cup {Repo("perfect-project", TRUE,
                   <<ReadmeWith(FullReadme), Entry("LICENSE", "blob", FALSE, "")>>)}

ZeroScore ==
    [repositoryName |-> 0, readmeExists |-> 0, readmeContent |-> ZeroReadmeContent,
     licenseFile |-> 0, totalScore |-> 0]

(***************************************************************************)
(* The provider boundary: responses of the GraphQL endpoint.               *)
(*                                                                         *)
(* An absent or null value is the empty sequence, a present one a          *)
(* one-element sequence.  A response is [status, statusText, headers,      *)
(* body]; a body is [hasErrors, errors, hasUser, page] (hasUser FALSE for  *)
(* data.user = null or no data at all).                                    *)
(***************************************************************************)
None == <<>>
Some(v) == <<v>>

\* The two tables, empty; now is the database clock, which fills scanned_at.
EmptyDb == [sessions |-> <<>>, repositories |-> <<>>, now |-> 1]

RECURSIVE Join(_, _)
Join(ss, sep) ==
    IF Len(ss) = 0 THEN ""
    ELSE IF Len(ss) = 1 THEN Head(ss)
    ELSE Head(ss) \o sep \o Join(Tail(ss), sep)

Node(name, description, language, stars, forks, hasObject, entries) ==
    [name |-> name, description |-> description,
     url |-> "https://github.com/octocat/" \o name, isPrivate |-> FALSE,
     primaryLanguage |-> language, stargazerCount |-> stars, forkCount |-> forks,
     hasObject |-> hasObject, entries |-> entries]

\* The two repositories of the scan handler's tests.
AwesomeProject ==
    Node("awesome-project", Some("A really cool project"), Some("JavaScript"), 42, 7, TRUE,
         <<ReadmeWith(ScanTestReadme), Entry("LICENSE", "blob", TRUE, "MIT License...")>>)

SimpleRepo == Node("simple-repo", None, None, 1, 0, FALSE, <<>>)

NodePool == {AwesomeProject, SimpleRepo}

Cursors == {None, Some("cursor1"), Some("cursor2")}

Page(hasNextPage, endCursor, nodes) ==
    [hasNextPage |-> hasNextPage, endCursor |-> endCursor, nodes |-> nodes]

EmptyPage == Page(FALSE, None, <<>>)

Body(hasErrors, errors, hasUser, page) ==
    [hasErrors |-> hasErrors, errors |-> errors, hasUser |-> hasUser, page |-> page]

NoBody == Body(FALSE, <<>>, FALSE, EmptyPage)

Headers(reset, retryAfter) == [rateLimitReset |-> reset, retryAfter |-> retryAfter]

NoHeaders == Headers(None, None)

Response(status, statusText, headers, body) ==
    [status |-> status, statusText |-> statusText, headers |-> headers, body |-> body]

\* Response.ok
ok(response) == response.status >= 200 /\ response.status <= 299

PageBodies ==
    {Body(FALSE, <<>>, TRUE, Page(h, c, ns)) :
        h \in BOOLEAN, c \in Cursors, ns \in SeqsUpTo(NodePool, MaxPageSize)}

FailureBodies ==
    {Body(FALSE, <<>>, FALSE, EmptyPage),
     Body(TRUE, <<"Something went wrong">>, FALSE, EmptyPage),
     Body(TRUE, <<"Bad query", "Timeout">>, TRUE, EmptyPage),
     Body(TRUE, <<>>, TRUE, EmptyPage)}

\* Non-2xx responses whose body would be a failure or a page if it were read.
ErrorResponsesWithBody ==
    {Response(401, "Unauthorized", NoHeaders,
              Body(TRUE, <<"Something went wrong">>, FALSE, EmptyPage)),
     Response(403, "Forbidden", NoHeaders,
              Body(FALSE, <<>>, TRUE, Page(FALSE, None, <<AwesomeProject>>))),
     Response(500, "Internal Server Error", NoHeaders,
              Body(TRUE, <<"Something went wrong">>, FALSE, EmptyPage)),
     Response(502, "Bad Gateway", NoHeaders,
              Body(FALSE, <<>>, TRUE, Page(TRUE, Some("cursor1"), <<AwesomeProject>>)))}

ErrorResponses ==
    {Response(401, "Unauthorized", NoHeaders, NoBody),
     Response(404, "Not Found", NoHeaders, NoBody),
     Response(500, "Internal Server Error", NoHeaders, NoBody)}
        \cup ErrorResponsesWithBody
        \cup {Response(st, tx, Headers(rs, ra), NoBody) :
                st \in {403}, tx \in {"Forbidden"},
                rs \in {None, Some("1234567890")}, ra \in {None, Some("60")}}
        \cup {Response(st, tx, Headers(rs, ra), NoBody) :
                st \in {429}, tx \in {"Too Many Requests"},
                rs \in {None, Some("1234567890")}, ra \in {None, Some("60")}}

Responses ==
    ErrorResponses \cup {Response(200, "OK", NoHeaders, b) : b \in PageBodies \cup FailureBodies}

NetworkErrors == {"Network error"}

(***************************************************************************)
(* fetchGitHubRepositories: the paginated fetcher.                         *)
(*                                                                         *)
(* fetch.pc: "idle" before the call, "request" at the head of the loop,    *)
(* "await" while the request is in flight, "delay" in the throttle delay,  *)
(* "done" after return, "failed" after the error was rethrown.             *)
(***************************************************************************)
\* A thrown error: new Error(message) has neither code nor cause.
Error(message) == [name |-> "Error", code |-> None, message |-> message, cause |-> None]

NoError == [name |-> "", code |-> None, message |-> "", cause |-> None]

\* The sessions table, empty: lastId is the last value of its serial
\* sequence, now the day the clock shows.
EmptyAuthDb == [sessions |-> <<>>, lastId |-> 0, now |-> 1]

\* Two browsers, each with at most one request at the server.
Clients == {"a", "b"}

\* No request at the server.
RequestIdle ==
    [pc |-> "idle", authorization |-> None, procedure |-> "", user |-> None,
     sessionId |-> None, error |-> NoError, queryFailed |-> FALSE]

Usernames == {"octocat", "rate limit"}

\* The calls made: a public scan, and one with a personal access token.
FetchCalls ==
    {[username |-> "octocat", personalAccessToken |-> Some("ghp_token")]}
        \cup {[username |-> u, personalAccessToken |-> None] : u \in Usernames}

FetchIdle ==
    [pc |-> "idle", username |-> "", token |-> None, repositories |-> <<>>,
     hasNextPage |-> TRUE, cursor |-> None, error |-> NoError, result |-> <<>>]

\* provider.requests: the variables and authorization of each request sent;
\* provider.responses: each response it gave, in order.
ProviderIdle == [requests |-> <<>>, responses |-> <<>>]

\* The fields the loop copies from a node.
toRepositoryData(node) ==
    [name |-> node.name, description |-> node.description, url |-> node.url,
     isPrivate |-> node.isPrivate, primaryLanguage |-> node.primaryLanguage,
     stargazerCount |-> node.stargazerCount, forkCount |-> node.forkCount,
     hasObject |-> node.hasObject, entries |-> node.entries]

\* Faulty variant: each page replaces what was accumulated
pushAll_Replace(repositories, nodes) ==
    [i \in 1..Len(nodes) |-> toRepositoryData(nodes[i])]

pushAll(repositories, nodes) ==
    repositories \o [i \in 1..Len(nodes) |-> toRepositoryData(nodes[i])]

\* Faulty variant: the missing user is looked at before the errors list
fetchErrorOf_UserFirst(response, username) ==
    IF ~ok(response) THEN
        IF response.status = 401
        THEN Error("GitHub authentication failed. Invalid or expired token.")
        ELSE IF response.status = 403
        THEN Error("GitHub API rate limit exceeded. Please try again later or provide a Personal Access Token.")
        ELSE Error("GitHub API request failed: " \o ToString(response.status)
                   \o " " \o response.statusText)
    ELSE IF ~response.body.hasUser
    THEN Error("GitHub user '" \o username \o "' not found")
    ELSE IF response.body.hasErrors
    THEN Error("GitHub GraphQL API errors: " \o Join(response.body.errors, ", "))
    ELSE NoError

\* The error the loop body throws for a response; NoError for a page.
fetchErrorOf(response, username) ==
    IF ~ok(response) THEN
        IF response.status = 401
        THEN Error("GitHub authentication failed. Invalid or expired token.")
        ELSE IF response.status = 403
        THEN Error("GitHub API rate limit exceeded. Please try again later or provide a Personal Access Token.")
        ELSE Error("GitHub API request failed: " \o ToString(response.status)
                   \o " " \o response.statusText)
    ELSE IF response.body.hasErrors
    THEN Error("GitHub GraphQL API errors: " \o Join(response.body.errors, ", "))
    ELSE IF ~response.body.hasUser
    THEN Error("GitHub user '" \o username \o "' not found")
    ELSE NoError

\* Faulty variant: every request asks for the first page
SendRequest_NullCursor ==
    /\ fetch.pc = "request"
    /\ fetch.hasNextPage
    /\ provider' = [provider EXCEPT !.requests =
            Append(@, [username |-> fetch.username, cursor |-> None,
                       authorization |-> fetch.token])]
    /\ fetch' = [fetch EXCEPT !.pc = "await"]
    /\ UNCHANGED <<scorerVars, scanVars, historyVars, authVars>>

StartFetch(username, personalAccessToken) ==
    /\ fetch.pc = "idle"
    /\ fetch' = [FetchIdle EXCEPT !.pc = "request", !.username = username,
                                  !.token = personalAccessToken]
    /\ UNCHANGED <<provider, scorerVars, scanVars, historyVars, authVars>>

SendRequest ==
    /\ fetch.pc = "request"
    /\ fetch.hasNextPage
    /\ provider' = [provider EXCEPT !.requests =
            Append(@, [username |-> fetch.username, cursor |-> fetch.cursor,
                       authorization |-> fetch.token])]
    /\ fetch' = [fetch EXCEPT !.pc = "await"]
    /\ UNCHANGED <<scorerVars, scanVars, historyVars, authVars>>

\* Faulty variant: the transport error is replaced by a new error
NetworkFailure_Wrapped(message) ==
    /\ fetch.pc = "await"
    /\ fetch' = [fetch EXCEPT !.pc = "failed",
                              !.error = Error("Failed to fetch GitHub repositories")]
    /\ UNCHANGED <<provider, scorerVars, scanVars, historyVars, authVars>>

\* Faulty variant: the throttle delay is taken after every page
ReceiveResponse_AlwaysDelays(response) ==
    /\ fetch.pc = "await"
    /\ provider' = [provider EXCEPT !.responses = Append(@, response)]
    /\ LET e == fetchErrorOf(response, fetch.username)
           repositoryData == response.body.page
       IN  IF e # NoError
           THEN fetch' = [fetch EXCEPT !.pc = "failed", !.error = e]
           ELSE fetch' = [fetch EXCEPT
                    !.repositories = pushAll(@, repositoryData.nodes),
                    !.hasNextPage = repositoryData.hasNextPage,
                    !.cursor = repositoryData.endCursor,
                    !.pc = "delay"]
    /\ UNCHANGED <<scorerVars, scanVars, historyVars, authVars>>

\* fetch() rejects: the catch block logs and rethrows the same error.
NetworkFailure(message) ==
    /\ fetch.pc = "await"
    /\ fetch' = [fetch EXCEPT !.pc = "failed", !.error = Error(message)]
    /\ UNCHANGED <<provider, scorerVars, scanVars, historyVars, authVars>>

ReceiveResponse(response) ==
    /\ fetch.pc = "await"
    /\ provider' = [provider EXCEPT !.responses = Append(@, response)]
    /\ LET e == fetchErrorOf(response, fetch.username)
           repositoryData == response.body.page
       IN  IF e # NoError
           THEN fetch' = [fetch EXCEPT !.pc = "failed", !.error = e]
           ELSE fetch' = [fetch EXCEPT
                    !.repositories = pushAll(@, repositoryData.nodes),
                    !.hasNextPage = repositoryData.hasNextPage,
                    !.cursor = repositoryData.endCursor,
                    !.pc = IF repositoryData.hasNextPage THEN "delay" ELSE "done",
                    !.result = IF repositoryData.hasNextPage THEN @
                               ELSE pushAll(fetch.repositories, repositoryData.nodes)]
    /\ UNCHANGED <<scorerVars, scanVars, historyVars, authVars>>

\* the 100 ms throttle delay elapses
ThrottleElapsed ==
    /\ fetch.pc = "delay"
    /\ fetch' = [fetch EXCEPT !.pc = "request"]
    /\ UNCHANGED <<provider, scorerVars, scanVars, historyVars, authVars>>

\* The provider reports a next page only while fewer than MaxPages were asked.
Servable(response) ==
    (ok(response) /\ response.body.hasUser /\ response.body.page.hasNextPage)
        => Len(provider.requests) < MaxPages

FetcherInit ==
    /\ repo = Repo("awesome-project", FALSE, <<>>)
    /\ scored = {}
    /\ quality = ZeroScore
    /\ scanQuality = ZeroScore
    /\ fetch = FetchIdle
    /\ provider = ProviderIdle
    /\ scans = <<>>
    /\ db = EmptyDb
    /\ history = <<>>
    /\ calls = <<>>
    /\ authDb = EmptyAuthDb
    /\ requests = [c \in Clients |-> RequestIdle]
    /\ issued = <<>>

FetcherNext ==
    \/ \E c \in FetchCalls : StartFetch(c.username, c.personalAccessToken)
    \/ SendRequest
    \/ \E m \in NetworkErrors : NetworkFailure(m)
    \/ \E r \in Responses : Servable(r) /\ ReceiveResponse(r)
    \/ ThrottleElapsed

FetcherSpec == FetcherInit /\ [][FetcherNext]_vars

\* The responses that matter to termination: every kind of failure, and pages
\* of every hasNextPage and endCursor, empty or with one repository.
LiveResponses ==
    {r \in Responses : IF ok(r) /\ r.body.hasUser /\ ~r.body.hasErrors
                       THEN r.body.page.nodes \in {<<>>, <<AwesomeProject>>}
                       ELSE r.headers = NoHeaders}

FetcherLiveNext ==
    \/ \E c \in FetchCalls : StartFetch(c.username, c.personalAccessToken)
    \/ SendRequest
    \/ \E m \in NetworkErrors : NetworkFailure(m)
    \/ \E r \in LiveResponses : Servable(r) /\ ReceiveResponse(r)
    \/ ThrottleElapsed

\* The event loop runs every continuation that is ready, the timer of the
\* throttle delay fires, and every request that is in flight is answered.
FetcherFairness ==
    /\ WF_vars(SendRequest)
    /\ WF_vars(ThrottleElapsed)
    /\ WF_vars(\E r \in LiveResponses : Servable(r) /\ ReceiveResponse(r))

FetcherLiveSpec == FetcherInit /\ [][FetcherLiveNext]_vars /\ FetcherFairness

(***************************************************************************)
(* scanGitHubRepositories and the fetch function of its module.            *)
(*                                                                         *)
(* scans[p] holds the locals of invocation p.  pc: "fetch" while the       *)
(* request is in flight, "insertSession" and "insertRepositories" while    *)
(* the insert is awaited, "done" after return, "failed" after the catch    *)
(* block rethrew.  thrown and failedAt record which awaited step threw     *)
(* what, response the response the fetch received; the column scan of a    *)
(* row records the invocation that inserted it.                            *)
(***************************************************************************)
TRPCError(code, message, cause) ==
    [name |-> "TRPCError", code |-> Some(code), message |-> message, cause |-> cause]

NaN == [nan |-> TRUE, value |-> 0]
Number(n) == [nan |-> FALSE, value |-> n]

DigitValue(c) == IndexOfChar(Digits, c) - 1

\* The number of leading decimal digits of s.
LeadingDigits(s) ==
    IF \E i \in 1..Len(s) : DigitValue(Char(s, i)) < 0
    THEN (CHOOSE i \in 1..Len(s) :
            DigitValue(Char(s, i)) < 0 /\ \A j \in 1..(i - 1) : DigitValue(Char(s, j)) >= 0) - 1
    ELSE Len(s)

RECURSIVE DecimalValue(_)
DecimalValue(s) ==
    IF Len(s) = 0 THEN 0
    ELSE 10 * DecimalValue(SubSeq(s, 1, Len(s) - 1)) + DigitValue(Char(s, Len(s)))

\* parseInt on an unsigned header value: its leading digits, NaN without any
parseInt(s) ==
    IF LeadingDigits(s) = 0 THEN NaN
    ELSE Number(DecimalValue(SubSeq(s, 1, LeadingDigits(s))))

\* header ? parseInt(header) : null
headerNumber(header) ==
    IF header # None /\ header[1] # "" THEN Some(parseInt(header[1])) ELSE None

\* JSON.stringify of the errors list
stringifyErrors(errors) ==
    "[" \o Join([i \in 1..Len(errors) |-> "\"" \o errors[i] \o "\""], ",") \o "]"

\* The error the module's fetchGitHubRepositories throws for a response;
\* NoError when it returns.
scanFetchErrorOf(response) ==
    IF ~ok(response) THEN
        IF response.status = 403 \/ response.status = 429
        THEN TRPCError("TOO_MANY_REQUESTS", "GITHUB_RATE_LIMIT_EXCEEDED",
                       Some([rateLimitReset |-> headerNumber(response.headers.rateLimitReset),
                             retryAfter |-> headerNumber(response.headers.retryAfter)]))
        ELSE TRPCError("INTERNAL_SERVER_ERROR",
                       "GitHub API request failed: " \o ToString(response.status), None)
    ELSE IF response.body.hasErrors
    THEN Error("GitHub API errors: " \o stringifyErrors(response.body.errors))
    ELSE NoError

\* Faulty variant: repositories without a root tree are dropped from the list
scanFetchNodesOf_WithRootOnly(response) ==
    IF response.body.hasUser
    THEN SelectSeq(response.body.page.nodes, LAMBDA n : n.hasObject)
    ELSE <<>>

\* data.data?.user?.repositories?.nodes || []
scanFetchNodesOf(response) ==
    IF response.body.hasUser THEN response.body.page.nodes ELSE <<>>

analyzeRepositoryQuality(r) ==
    [name |-> r.name,
     description |-> r.description,
     url |-> r.url,
     isPrivate |-> r.isPrivate,
     language |-> r.primaryLanguage,
     stars |-> r.stargazerCount,
     forks |-> r.forkCount,
     qualityScore |-> calculateQualityScore(r)]

\* Faulty variant: the catch block throws a new error
rethrow_Wrapped(error) == Error("GitHub scan failed: " \o error.message)

\* catch (error) { console.error(...); throw error; }
rethrow(error) == error

ScanLocals(userId, input) ==
    [pc |-> "fetch", userId |-> userId, input |-> input,
     repositories |-> <<>>, analyzedRepositories |-> <<>>, sessionId |-> None,
     result |-> None, error |-> NoError, thrown |-> NoError, failedAt |-> "",
     response |-> None]

Fails(p, step, error) ==
    scans' = [scans EXCEPT ![p].pc = "failed", ![p].thrown = error,
                           ![p].failedAt = step, ![p].error = rethrow(error)]

\* The fetch of invocation p threw error after receiving response.
FetchFails(p, response, error) ==
    scans' = [scans EXCEPT ![p].pc = "failed", ![p].thrown = error,
                           ![p].failedAt = "fetch", ![p].error = rethrow(error),
                           ![p].response = Some(response)]

\* The GitHubScanResult the handler returns.
scanResultOf(scan) ==
    [username |-> scan.input.username,
     totalRepositories |-> Len(scan.repositories),
     repositories |-> [i \in 1..Len(scan.analyzedRepositories) |->
                        [id |-> 0, repository |-> scan.analyzedRepositories[i]]]]

ScanStart(userId, input) ==
    /\ Len(scans) < MaxScans
    /\ scans' = Append(scans, ScanLocals(userId, input))
    /\ UNCHANGED <<db, scorerVars, fetcherVars, historyVars, authVars>>

ScanFetchResponds(p, response) ==
    /\ scans[p].pc = "fetch"
    /\ LET e == scanFetchErrorOf(response)
           repositories == scanFetchNodesOf(response)
       IN  IF e # NoError
           THEN FetchFails(p, response, e)
           ELSE scans' = [scans EXCEPT
                    ![p].response = Some(response),
                    ![p].repositories = repositories,
                    ![p].analyzedRepositories =
                        [i \in 1..Len(repositories) |-> analyzeRepositoryQuality(repositories[i])],
                    ![p].pc = "insertSession"]
    /\ UNCHANGED <<db, scorerVars, fetcherVars, historyVars, authVars>>

ScanFetchNetworkFails(p, message) ==
    /\ scans[p].pc = "fetch"
    /\ Fails(p, "fetch", Error(message))
    /\ UNCHANGED <<db, scorerVars, fetcherVars, historyVars, authVars>>

\* Faulty variant: the sequence is not advanced by an insert
NextId_NotAdvanced(rows) == 1

\* serial primary key: the next value of the table's sequence
NextId(rows) == Len(rows) + 1

\* defaultNow(): the instants the clock can show when a statement runs, the
\* instant of the previous statement or a later one
Instants(now) == {t \in now..(now + 1) : t <= MaxTime}

ScanSessionInserted(p) ==
    /\ scans[p].pc = "insertSession"
    /\ \E t \in Instants(db.now) :
       LET sessionId == NextId(db.sessions)
           row == [id |-> sessionId, userId |-> scans[p].userId,
                   username |-> scans[p].input.username,
                   totalRepositories |-> Len(scans[p].repositories),
                   scannedAt |-> t, scan |-> p]
           inserted == [scans[p] EXCEPT !.sessionId = Some(sessionId)]
       IN  /\ db' = [db EXCEPT !.sessions = Append(@, row), !.now = t]
           /\ IF Len(scans[p].analyzedRepositories) > 0
              THEN scans' = [scans EXCEPT ![p] = [inserted EXCEPT !.pc = "insertRepositories"]]
              ELSE scans' = [scans EXCEPT ![p] =
                        [inserted EXCEPT !.pc = "done", !.result = Some(scanResultOf(inserted))]]
    /\ UNCHANGED <<scorerVars, fetcherVars, historyVars, authVars>>

ScanSessionInsertFails(p) ==
    /\ scans[p].pc = "insertSession"
    /\ Fails(p, "insertSession", Error("insert into scan_sessions failed"))
    /\ UNCHANGED <<db, scorerVars, fetcherVars, historyVars, authVars>>

ScanRepositoriesInserted(p) ==
    /\ scans[p].pc = "insertRepositories"
    /\ \E t \in Instants(db.now) :
       LET analyzed == scans[p].analyzedRepositories
           rows == [i \in 1..Len(analyzed) |->
                        [id |-> Len(db.repositories) + i,
                         sessionId |-> scans[p].sessionId[1],
                         name |-> analyzed[i].name,
                         description |-> analyzed[i].description,
                         url |-> analyzed[i].url,
                         isPrivate |-> analyzed[i].isPrivate,
                         language |-> analyzed[i].language,
                         stars |-> analyzed[i].stars,
                         forks |-> analyzed[i].forks,
                         qualityScore |-> analyzed[i].qualityScore,
                         scannedAt |-> t,
                         scan |-> p]]
       IN  db' = [db EXCEPT !.repositories = @ \o rows, !.now = t]
    /\ scans' = [scans EXCEPT ![p].pc = "done", ![p].result = Some(scanResultOf(scans[p]))]
    /\ UNCHANGED <<scorerVars, fetcherVars, historyVars, authVars>>

ScanRepositoriesInsertFails(p) ==
    /\ scans[p].pc = "insertRepositories"
    /\ Fails(p, "insertRepositories", Error("insert into scanned_repositories failed"))
    /\ UNCHANGED <<db, scorerVars, fetcherVars, historyVars, authVars>>

\* The calls made: two users, each scanning an account of their own.
ScanCalls ==
    {[userId |-> 1, input |-> [username |-> "octocat", personalAccessToken |-> None]],
     [userId |-> 2, input |-> [username |-> "ghost", personalAccessToken |-> Some("ghp_token")]]}

\* What the provider answers a scan.
ScanResponses ==
    {Response(200, "OK", NoHeaders, Body(FALSE, <<>>, TRUE, Page(FALSE, None, ns))) :
        ns \in {<<>>, <<AwesomeProject, SimpleRepo>>}}
        \cup {Response(200, "OK", NoHeaders, Body(FALSE, <<>>, FALSE, EmptyPage)),
              Response(200, "OK", NoHeaders, Body(TRUE, <<"API Error">>, FALSE, EmptyPage)),
              Response(403, "Forbidden", Headers(Some("1234567890"), None), NoBody),
              Response(429, "Too Many Requests", Headers(None, Some("60")), NoBody),
              Response(500, "Internal Server Error", NoHeaders, NoBody)}

ScanInit ==
    /\ repo = Repo("awesome-project", FALSE, <<>>)
    /\ scored = {}
    /\ quality = ZeroScore
    /\ scanQuality = ZeroScore
    /\ fetch = FetchIdle
    /\ provider = ProviderIdle
    /\ scans = <<>>
    /\ db = EmptyDb
    /\ history = <<>>
    /\ calls = <<>>
    /\ authDb = EmptyAuthDb
    /\ requests = [c \in Clients |-> RequestIdle]
    /\ issued = <<>>

ScanNext ==
    \/ \E c \in ScanCalls : ScanStart(c.userId, c.input)
    \/ \E p \in 1..Len(scans) :
        \/ \E r \in ScanResponses : ScanFetchResponds(p, r)
        \/ \E m \in NetworkErrors : ScanFetchNetworkFails(p, m)
        \/ ScanSessionInserted(p)
        \/ ScanSessionInsertFails(p)
        \/ ScanRepositoriesInserted(p)
        \/ ScanRepositoriesInsertFails(p)

ScanSpec == ScanInit /\ [][ScanNext]_vars

(***************************************************************************)
(* getScanHistory.                                                         *)
(*                                                                         *)
(* history[h] holds the locals of call h.  pc: "selectSessions" and        *)
(* "selectRepositories" while the query is awaited, "done" after return,   *)
(* "failed" after the catch block rethrew.  A query without ORDER BY, and  *)
(* rows with equal sort keys, come back in any order.  The field session   *)
(* of a result entry records the row it was built from.                    *)
(***************************************************************************)
\* The rows in every order a query may return them in.
Orderings(rows) ==
    {[i \in 1..Len(rows) |-> rows[perm[i]]] : perm \in Permutations(1..Len(rows))}

\* Faulty variant: the sort is ascending
orderByDesc_Ascending(rows) ==
    {s \in Orderings(rows) :
        \A i, j \in 1..Len(s) : i < j => s[i].scannedAt <= s[j].scannedAt}

\* .orderBy(desc(scanSessionsTable.scannedAt))
orderByDesc(rows) ==
    {s \in Orderings(rows) :
        \A i, j \in 1..Len(s) : i < j => s[i].scannedAt >= s[j].scannedAt}

\* Faulty variant: the owner is not looked at
whereUserId_Any(rows, userId) == rows

\* .where(eq(scanSessionsTable.userId, userId))
whereUserId(rows, userId) == SelectSeq(rows, LAMBDA r : r.userId = userId)

\* .where(inArray(scannedRepositoriesTable.sessionId, sessionIds))
whereSessionIdIn(rows, sessionIds) ==
    SelectSeq(rows, LAMBDA r : \E i \in 1..Len(sessionIds) : sessionIds[i] = r.sessionId)

\* repositoriesBySession.get(session.id) || []
repositoriesBySession(allRepositories, sessionId) ==
    SelectSeq(allRepositories, LAMBDA r : r.sessionId = sessionId)

\* One entry of results.
historyResultOf(session, allRepositories) ==
    LET rows == repositoriesBySession(allRepositories, session.id)
    IN  [username |-> session.username,
         totalRepositories |-> session.totalRepositories,
         repositories |-> [i \in 1..Len(rows) |->
                            [id |-> rows[i].id,
                             name |-> rows[i].name,
                             description |-> rows[i].description,
                             url |-> rows[i].url,
                             isPrivate |-> rows[i].isPrivate,
                             language |-> rows[i].language,
                             stars |-> rows[i].stars,
                             forks |-> rows[i].forks,
                             qualityScore |-> rows[i].qualityScore,
                             scannedAt |-> rows[i].scannedAt]],
         scannedAt |-> session.scannedAt,
         session |-> session.id]

HistoryLocals(userId) ==
    [pc |-> "selectSessions", userId |-> userId, sessions |-> <<>>,
     result |-> None, error |-> NoError]

\* One call is followed in a behaviour: calls only read, so no call affects
\* what another returns.
GetScanHistoryStart(userId) ==
    /\ history = <<>>
    /\ history' = Append(history, HistoryLocals(userId))
    /\ UNCHANGED <<calls, scorerVars, fetcherVars, scanVars, authVars>>

HistorySessionsSelected(h) ==
    /\ history[h].pc = "selectSessions"
    /\ \E sessions \in orderByDesc(whereUserId(db.sessions, history[h].userId)) :
        IF Len(sessions) = 0
        THEN history' = [history EXCEPT ![h].pc = "done", ![h].result = Some(<<>>)]
        ELSE history' = [history EXCEPT ![h].pc = "selectRepositories",
                                        ![h].sessions = sessions]
    /\ UNCHANGED <<calls, scorerVars, fetcherVars, scanVars, authVars>>

HistoryRepositoriesSelected(h) ==
    /\ history[h].pc = "selectRepositories"
    /\ LET sessions == history[h].sessions
           sessionIds == [i \in 1..Len(sessions) |-> sessions[i].id]
       IN  \E allRepositories \in Orderings(whereSessionIdIn(db.repositories, sessionIds)) :
            history' = [history EXCEPT
                ![h].pc = "done",
                ![h].result = Some([i \in 1..Len(sessions) |->
                                    historyResultOf(sessions[i], allRepositories)])]
    /\ UNCHANGED <<calls, scorerVars, fetcherVars, scanVars, authVars>>

HistoryQueryFails(h) ==
    /\ history[h].pc \in {"selectSessions", "selectRepositories"}
    /\ history' = [history EXCEPT ![h].pc = "failed",
                                    ![h].error = rethrow(Error("select failed"))]
    /\ UNCHANGED <<calls, scorerVars, fetcherVars, scanVars, authVars>>

\* The identities of ScanCalls.
UserIds == {c.userId : c \in ScanCalls}

\* A scan_sessions row as a scan of the identity stores it.
StoredSession(id, userId, scannedAt, totalRepositories) ==
    [id |-> id, userId |-> userId,
     username |-> (CHOOSE c \in ScanCalls : c.userId = userId).input.username,
     totalRepositories |-> totalRepositories, scannedAt |-> scannedAt, scan |-> 0]

\* The repositories of NodePool, analyzed.
AnalyzedNodes == [n \in NodePool |-> analyzeRepositoryQuality(n)]

\* A scanned_repositories row as a scan stores it.
StoredRepository(id, sessionId, scannedAt) ==
    LET analyzed == AnalyzedNodes[IF id % 2 = 1 THEN AwesomeProject ELSE SimpleRepo]
    IN  [id |-> id, sessionId |-> sessionId,
         name |-> analyzed.name, description |-> analyzed.description,
         url |-> analyzed.url, isPrivate |-> analyzed.isPrivate,
         language |-> analyzed.language, stars |-> analyzed.stars,
         forks |-> analyzed.forks, qualityScore |-> analyzed.qualityScore,
         scannedAt |-> scannedAt, scan |-> 0]

\* The tables holding session i of owners[i] with timestamp times[i], and
\* repository row j linked to session links[j].
StoredDb(owners, times, links) ==
    [sessions |-> [i \in 1..Len(owners) |->
        StoredSession(i, owners[i], times[i],
                      Cardinality({j \in 1..Len(links) : links[j] = i}))],
     repositories |-> [j \in 1..Len(links) |-> StoredRepository(j, links[j], times[links[j]])],
     now |-> MaxTime]

\* What the tables can hold: sessions of any owner with any timestamp, in any
\* order of insertion, each with any number of repository rows.
StoredDbs ==
    UNION {{StoredDb(owners, times, links) :
                owners \in [1..n -> UserIds], times \in [1..n -> 1..MaxTime],
                links \in [1..k -> 1..n]} :
           n \in 0..MaxSessions, k \in 0..MaxRows}

HistoryInit ==
    /\ repo = Repo("awesome-project", FALSE, <<>>)
    /\ scored = {}
    /\ quality = ZeroScore
    /\ scanQuality = ZeroScore
    /\ fetch = FetchIdle
    /\ provider = ProviderIdle
    /\ scans = <<>>
    /\ db \in StoredDbs
    /\ history = <<>>
    /\ calls = <<>>
    /\ authDb = EmptyAuthDb
    /\ requests = [c \in Clients |-> RequestIdle]
    /\ issued = <<>>

HistoryNext ==
    \/ \E userId \in UserIds : GetScanHistoryStart(userId)
    \/ \E h \in 1..Len(history) :
        \/ HistorySessionsSelected(h)
        \/ HistoryRepositoriesSelected(h)
        \/ HistoryQueryFails(h)

HistorySpec == HistoryInit /\ [][HistoryNext]_vars

(***************************************************************************)
(* Scans followed by a reading of the history: the scans of ScanSpec run   *)
(* to their end, in any interleaving, and then one identity reads its      *)
(* history from the tables they left.                                      *)
(***************************************************************************)
AllScansReturned ==
    /\ Len(scans) > 0
    /\ \A p \in 1..Len(scans) : scans[p].pc \in {"done", "failed"}

ScanHistoryNext ==
    \/ history = <<>> /\ ScanNext
    \/ \E userId \in UserIds : AllScansReturned /\ GetScanHistoryStart(userId)
    \/ \E h \in 1..Len(history) :
        \/ HistorySessionsSelected(h)
        \/ HistoryRepositoriesSelected(h)
        \/ HistoryQueryFails(h)

ScanHistorySpec == ScanInit /\ [][ScanHistoryNext]_vars

(***************************************************************************)
(* Scorer specification: a record is drawn, and each scorer is applied.    *)
(***************************************************************************)

ScorerInit ==
    /\ repo \in Repositories
    /\ scored = {}
    /\ quality = ZeroScore
    /\ scanQuality = ZeroScore
    /\ fetch = FetchIdle
    /\ provider = ProviderIdle
    /\ scans = <<>>
    /\ db = EmptyDb
    /\ history = <<>>
    /\ calls = <<>>
    /\ authDb = EmptyAuthDb
    /\ requests = [c \in Clients |-> RequestIdle]
    /\ issued = <<>>

CalculateRepositoryQuality ==
    /\ "calculateRepositoryQuality" \notin scored
    /\ quality' = calculateRepositoryQuality(repo)
    /\ scored' = scored \cup {"calculateRepositoryQuality"}
    /\ UNCHANGED <<repo, scanQuality, fetcherVars, scanVars, historyVars, authVars>>

CalculateQualityScore ==
    /\ "calculateQualityScore" \notin scored
    /\ scanQuality' = calculateQualityScore(repo)
    /\ scored' = scored \cup {"calculateQualityScore"}
    /\ UNCHANGED <<repo, quality, fetcherVars, scanVars, historyVars, authVars>>

ScorerNext == CalculateRepositoryQuality \/ CalculateQualityScore

ScorerSpec == ScorerInit /\ [][ScorerNext]_vars

(***************************************************************************)
(* Repeated scoring: calculateRepositoryQuality is called again and again, *)
(* on the record drawn and on another record, in any order.  calls[i]      *)
(* holds the argument of call i, the record as the call left it and the    *)
(* score returned.                                                         *)
(***************************************************************************)
\* The records scored repeatedly.
RescoredRepositories ==
    {Repo(n, TRUE, es) : n \in SampleNames, es \in SampleEntryLists}
        \cup {Repo(n, FALSE, <<>>) : n \in SampleNames}
        \cup {Repo("awesome-project", TRUE, <<ReadmeWith(t)>>) :
                t \in {FullReadme, ScanTestReadme, ThreeSectionReadme, "Short readme", ""}}
        \cup {Repo("perfect-project", TRUE,
                   <<ReadmeWith(FullReadme), Entry("LICENSE", "blob", FALSE, "")>>)}

\* The record scored in between.
OtherRepository == Repo("simple-repo", TRUE, <<Entry("LICENSE", "blob", FALSE, "")>>)

RescoreInit ==
    /\ repo \in RescoredRepositories
    /\ scored = {}
    /\ quality = ZeroScore
    /\ scanQuality = ZeroScore
    /\ fetch = FetchIdle
    /\ provider = ProviderIdle
    /\ scans = <<>>
    /\ db = EmptyDb
    /\ history = <<>>
    /\ calls = <<>>
    /\ authDb = EmptyAuthDb
    /\ requests = [c \in Clients |-> RequestIdle]
    /\ issued = <<>>

\* One call: the function reads repoData and assigns to none of its fields.
ScoreRecord(repoData) ==
    /\ Len(calls) < MaxCalls
    /\ calls' = Append(calls, [repoData |-> repoData, after |-> repoData,
                               result |-> calculateRepositoryQuality(repoData)])
    /\ UNCHANGED <<history, scorerVars, fetcherVars, scanVars, authVars>>

RescoreNext == ScoreRecord(repo) \/ ScoreRecord(OtherRepository)

RescoreSpec == RescoreInit /\ [][RescoreNext]_vars

(***************************************************************************)
(* Sessions: login, createContext, protectedProcedure, logout.             *)
(*                                                                         *)
(* requests[c].pc: "idle" with no request at the server, "handler" while   *)
(* the handler of the procedure runs, "rejected" after the middleware      *)
(* threw, "done" after the handler returned, "failed" after it threw.  In  *)
(* the last three the record is the response, which keeps the header the   *)
(* request bore.  queryFailed records that the select of createContext     *)
(* threw (the catch block swallows it).  A request enters at the moment    *)
(* the select of its createContext runs.                                   *)
(***************************************************************************)
\* SESSION_DURATION: 7 days
SessionDuration == 7

\* The days the clock shows: the first day, and the day a session made on the
\* first day expires.
Days == {1, 1 + SessionDuration}

\* `${session.id}.${user.id}.${generateToken()}`: the server never reads the
\* generated part again
Token(sessionId, userId) ==
    ToString(sessionId) \o "." \o ToString(userId) \o ".k3x9q1"

Procedures ==
    {"auth.logout", "auth.getCurrentUser", "scanGitHubRepositories", "getScanHistory"}

\* Headers createContext finds no token in: none, a token without the Bearer
\* scheme, a token of two parts, a token whose session id or user id is no
\* number.
MalformedHeaders ==
    {None,
     Some(""),
     Some(Token(1, 1)),
     Some("Basic " \o Token(1, 1)),
     Some("Bearer "),
     Some("Bearer 1.1"),
     Some("Bearer abc.1.k3x9q1"),
     Some("Bearer 1..k3x9q1")}

\* The Authorization headers sent: none, and the token of every session id
\* for every identity (issued or made up).
AuthorizationHeaders ==
    {None} \cup {Some("Bearer " \o Token(s, u)) : s \in 1..MaxLogins, u \in UserIds}

\* String.prototype.split
RECURSIVE split(_, _)
split(s, separator) ==
    LET i == IndexOfChar(s, separator)
    IN  IF i = 0 THEN <<s>>
        ELSE <<SubSeq(s, 1, i - 1)>> \o split(SubSeq(s, i + 1, Len(s)), separator)

parseAuthToken(token) ==
    LET parts == split(token, ".")
    IN  IF Len(parts) < 3 THEN None
        ELSE LET sessionId == parseInt(parts[1])
                 userId == parseInt(parts[2])
             IN  IF sessionId.nan \/ userId.nan THEN None
                 ELSE Some([sessionId |-> sessionId.value, userId |-> userId.value])

\* select from sessions where id = parsed.sessionId and userId =
\* parsed.userId and expiresAt > new Date()
selectSession(rows, parsed, now) ==
    SelectSeq(rows, LAMBDA s : /\ s.id = parsed.sessionId
                               /\ s.userId = parsed.userId
                               /\ s.expiresAt > now)

NoContext == [user |-> None, sessionId |-> None]

\* createContext up to its select: the token of a Bearer header, parsed;
\* None without a header, without the scheme, or with a token that does not
\* parse.
bearerToken(authorization) ==
    IF authorization # None /\ startsWith(authorization[1], "Bearer ")
    THEN parseAuthToken(SubSeq(authorization[1], 8, Len(authorization[1])))
    ELSE None

\* bearerToken of every header of the model.
ParsedHeaders == [h \in AuthorizationHeaders \cup MalformedHeaders |-> bearerToken(h)]

\* The context createContext returns when its select does not throw.
createContext(authorization, rows, now) ==
    IF ParsedHeaders[authorization] # None
    THEN LET parsed == ParsedHeaders[authorization][1]
         IN  IF Len(selectSession(rows, parsed, now)) > 0
             THEN [user |-> Some([id |-> parsed.userId]),
                   sessionId |-> Some(parsed.sessionId)]
             ELSE NoContext
    ELSE NoContext

\* Faulty variant: the delete removes nothing
deleteSession_Kept(rows, sessionId) == rows

\* delete from sessions where id = sessionId
deleteSession(rows, sessionId) == SelectSeq(rows, LAMBDA s : s.id # sessionId)

\* login, past the check of email and password: the session is inserted and
\* its token returned.
Login(userId) ==
    /\ authDb.lastId < MaxLogins
    /\ LET id == authDb.lastId + 1
           expiresAt == authDb.now + SessionDuration
       IN  /\ authDb' = [authDb EXCEPT
                    !.sessions = Append(@, [id |-> id, userId |-> userId,
                                            expiresAt |-> expiresAt]),
                    !.lastId = id]
           /\ issued' = Append(issued, [id |-> id, userId |-> userId,
                                        expiresAt |-> expiresAt, loggedOut |-> FALSE])
    /\ UNCHANGED <<requests, scorerVars, fetcherVars, scanVars, historyVars>>

\* time passes
Tick(day) ==
    /\ day > authDb.now
    /\ authDb' = [authDb EXCEPT !.now = day]
    /\ UNCHANGED <<requests, issued, scorerVars, fetcherVars, scanVars, historyVars>>

\* The middleware of protectedProcedure on the context ctx: it throws
\* UNAUTHORIZED without a user, and calls the handler otherwise.
protectedProcedure(request, ctx) ==
    IF ctx.user = None
    THEN [request EXCEPT !.pc = "rejected", !.procedure = "",
                         !.error = TRPCError("UNAUTHORIZED", "Authentication required", None)]
    ELSE [request EXCEPT !.pc = "handler", !.user = ctx.user, !.sessionId = ctx.sessionId]

\* A request for a protected procedure from client c, which has no other
\* request at the server: createContext runs its select, and the middleware
\* rejects the request or calls the handler.
Request(c, authorization, procedure) ==
    /\ requests[c].pc \in {"idle", "rejected", "done", "failed"}
    /\ requests' = [requests EXCEPT ![c] =
            protectedProcedure([RequestIdle EXCEPT !.authorization = authorization,
                                                   !.procedure = procedure],
                               createContext(authorization, authDb.sessions, authDb.now))]
    /\ UNCHANGED <<authDb, issued, scorerVars, fetcherVars, scanVars, historyVars>>

\* The same for any procedure, when the select of createContext throws: the
\* catch block leaves user null.
RequestQueryFails(c, authorization) ==
    /\ requests[c].pc \in {"idle", "rejected", "done", "failed"}
    /\ ParsedHeaders[authorization] # None
    /\ requests' = [requests EXCEPT ![c] =
            protectedProcedure([RequestIdle EXCEPT !.authorization = authorization,
                                                   !.queryFailed = TRUE],
                               NoContext)]
    /\ UNCHANGED <<authDb, issued, scorerVars, fetcherVars, scanVars, historyVars>>

\* The handler returns; logout(ctx.sessionId) has deleted the session.
HandlerReturns(c) ==
    /\ requests[c].pc = "handler"
    /\ requests' = [requests EXCEPT ![c] =
            [RequestIdle EXCEPT !.pc = "done", !.authorization = requests[c].authorization]]
    /\ IF requests[c].procedure = "auth.logout"
       THEN /\ authDb' = [authDb EXCEPT
                    !.sessions = deleteSession(@, requests[c].sessionId[1])]
            /\ issued' = [i \in 1..Len(issued) |->
                            IF issued[i].id = requests[c].sessionId[1]
                            THEN [issued[i] EXCEPT !.loggedOut = TRUE]
                            ELSE issued[i]]
       ELSE UNCHANGED <<authDb, issued>>
    /\ UNCHANGED <<scorerVars, fetcherVars, scanVars, historyVars>>

\* The delete of logout throws: the session stays.
LogoutFails(c) ==
    /\ requests[c].pc = "handler"
    /\ requests[c].procedure = "auth.logout"
    /\ requests' = [requests EXCEPT ![c] =
            [RequestIdle EXCEPT
                !.pc = "failed", !.authorization = requests[c].authorization,
                !.error = TRPCError("INTERNAL_SERVER_ERROR", "Logout failed", None)]]
    /\ UNCHANGED <<authDb, issued, scorerVars, fetcherVars, scanVars, historyVars>>

AuthInit ==
    /\ repo = Repo("awesome-project", FALSE, <<>>)
    /\ scored = {}
    /\ quality = ZeroScore
    /\ scanQuality = ZeroScore
    /\ fetch = FetchIdle
    /\ provider = ProviderIdle
    /\ scans = <<>>
    /\ db = EmptyDb
    /\ history = <<>>
    /\ calls = <<>>
    /\ authDb = EmptyAuthDb
    /\ requests = [c \in Clients |-> RequestIdle]
    /\ issued = <<>>

AuthNext ==
    \* identity 1 logs in, again and again; the other identity has no session
    \* and appears in made-up tokens only
    \/ \E userId \in {1} : Login(userId)
    \/ \E day \in Days : Tick(day)
    \/ \E c \in Clients :
        \/ \E authorization \in AuthorizationHeaders, procedure \in Procedures :
                Request(c, authorization, procedure)
        \/ \E authorization \in AuthorizationHeaders : RequestQueryFails(c, authorization)
        \/ HandlerReturns(c)
        \/ LogoutFails(c)

AuthSpec == AuthInit /\ [][AuthNext]_vars

(***************************************************************************)
(* Claims about the scorer (checked under ScorerSpec).                     *)
(***************************************************************************)
Scored(f) == f \in scored

SumOfParts(s) ==
    /\ s.totalScore = s.repositoryName + s.readmeExists + s.readmeContent.total + s.licenseFile
    /\ s.readmeContent.total =
            s.readmeContent.quickPresentation + s.readmeContent.badges
            + s.readmeContent.installationSection + s.readmeContent.usageSection
            + s.readmeContent.goalSection + s.readmeContent.roadmapSection
            + s.readmeContent.licenceSection

\* C1: the score either scorer returns has totalScore equal to repositoryName +
\* readmeExists + readmeContent.total + licenseFile, and readmeContent.total
\* equal to the sum of its seven components.
C1_TotalsAreSums ==
    /\ Scored("calculateRepositoryQuality") => SumOfParts(quality)
    /\ Scored("calculateQualityScore") => SumOfParts(scanQuality)

C1_Witness ==
    /\ Scored("calculateRepositoryQuality") /\ Scored("calculateQualityScore")
    /\ quality.totalScore = 110
    /\ scanQuality.readmeContent.total > 0

\* C2: calculateRepositoryQuality returns readmeContent.total within [0,50] and
\* totalScore within [0,100].
C2_ScoreBounds ==
    Scored("calculateRepositoryQuality") =>
        /\ quality.readmeContent.total \in 0..50
        /\ quality.totalScore \in 0..100

\* A word occurs in a name, case-insensitively: some substring lower-cases to it.
ContainsWord(name, words) ==
    \E i \in 1..Len(name) : \E j \in i..Len(name) : toLowerCase(SubSeq(name, i, j)) \in words

\* C3: repositoryName is 0 when the lower-cased name contains "test",
\* "boilerplate" or "starter" and 20 otherwise, whatever the root entries.
C3_RepositoryName ==
    Scored("calculateRepositoryQuality") =>
        quality.repositoryName =
            IF ContainsWord(repo.name, {"test", "boilerplate", "starter"}) THEN 0 ELSE 20

C3_Witness ==
    /\ Scored("calculateRepositoryQuality")
    /\ repo.name = "Test"
    /\ Len(repo.entries) > 0
    /\ quality.repositoryName = 0

NamedReadme(entry) == toLowerCase(entry.name) = "readme.md"

\* C4 as stated: readmeExists is 10 exactly when the root entries contain a
\* file-type entry named "readme.md" (case-insensitively) whose content was
\* fetched, and 0 otherwise.
C4_ReadmeExistsNeedsContent ==
    Scored("calculateRepositoryQuality") =>
        quality.readmeExists =
            IF \E i \in 1..Len(entriesOf(repo)) :
                    /\ NamedReadme(entriesOf(repo)[i])
                    /\ entriesOf(repo)[i].type = "blob"
                    /\ entriesOf(repo)[i].hasText
            THEN 10 ELSE 0

\* C4 amended: readmeExists is 10 exactly when the root entries contain a
\* file-type entry named "readme.md" (case-insensitively), whether or not its
\* content was fetched, and 0 otherwise.
C4_ReadmeExists ==
    Scored("calculateRepositoryQuality") =>
        quality.readmeExists =
            IF \E i \in 1..Len(entriesOf(repo)) :
                    /\ NamedReadme(entriesOf(repo)[i])
                    /\ entriesOf(repo)[i].type = "blob"
            THEN 10 ELSE 0

C4_Witness ==
    /\ Scored("calculateRepositoryQuality")
    /\ repo.entries = <<Entry("README.md", "blob", FALSE, "")>>
    /\ quality.readmeExists = 10

\* C5 as stated: licenseFile is 20 exactly when the root entries contain a
\* file-type entry whose lower-cased name is "license", "license.md",
\* "licence", or starts with "license" or "licence"; otherwise 0.
C5_LicenseFileByPrefix ==
    Scored("calculateRepositoryQuality") =>
        quality.licenseFile =
            IF \E i \in 1..Len(entriesOf(repo)) :
                    LET name == toLowerCase(entriesOf(repo)[i].name)
                    IN  /\ entriesOf(repo)[i].type = "blob"
                        /\ \/ name \in {"license", "license.md", "licence"}
                           \/ startsWith(name, "license")
                           \/ startsWith(name, "licence")
            THEN 20 ELSE 0

\* C5 amended: licenseFile is 20 exactly when the root entries contain a
\* file-type entry whose lower-cased name is exactly "license" or
\* "license.md", whatever the entry's content; otherwise 0.
C5_LicenseFile ==
    Scored("calculateRepositoryQuality") =>
        quality.licenseFile =
            IF \E i \in 1..Len(entriesOf(repo)) :
                    /\ entriesOf(repo)[i].type = "blob"
                    /\ toLowerCase(entriesOf(repo)[i].name) \in {"license", "license.md"}
            THEN 20 ELSE 0

C5_Witness ==
    /\ Scored("calculateRepositoryQuality")
    /\ repo.entries = <<Entry("LICENCE", "blob", FALSE, ""), Entry("License.md", "blob", TRUE, "MIT")>>
    /\ quality.licenseFile = 20

\* The README text calculateRepositoryQuality analyses.
ReadmeTextOf(r) ==
    LET i == findReadmeFile(entriesOf(r))
    IN  IF i # 0 /\ entriesOf(r)[i].hasText THEN entriesOf(r)[i].text ELSE ""

\* Some line of the text starts with '#' and contains the keyword on that line.
HeadingContains(text, keyword) ==
    \E i \in 1..Len(text) :
        /\ i = 1 \/ Char(text, i - 1) = "\n"
        /\ Char(text, i) = "#"
        /\ \E k \in (i + 1)..(Len(text) - Len(keyword) + 1) :
            /\ \A m \in i..(k + Len(keyword) - 1) : Char(text, m) # "\n"
            /\ toLowerCase(SubSeq(text, k, k + Len(keyword) - 1)) = keyword

\* C6: each section component is its maximum exactly when the README text has
\* a markdown heading (a line starting with '#') that contains the keyword,
\* and 0 otherwise; a keyword outside a heading earns nothing.
C6_SectionsByHeading ==
    Scored("calculateRepositoryQuality") =>
        LET text == ReadmeTextOf(repo)
            c == quality.readmeContent
        IN  /\ c.installationSection = IF HeadingContains(text, "installation") THEN 8 ELSE 0
            /\ c.usageSection = IF HeadingContains(text, "usage") THEN 8 ELSE 0
            /\ c.goalSection = IF HeadingContains(text, "goal") THEN 7 ELSE 0
            /\ c.roadmapSection = IF HeadingContains(text, "roadmap") THEN 7 ELSE 0
            /\ c.licenceSection = IF HeadingContains(text, "licen") THEN 10 ELSE 0

(***************************************************************************)
(* Claims about the paginated fetcher (checked under FetcherSpec).         *)
(***************************************************************************)
\* The call failed on the response it received last (not on a network error).
FailedOnResponse ==
    /\ fetch.pc = "failed"
    /\ Len(provider.responses) = Len(provider.requests)

LastResponse == provider.responses[Len(provider.responses)]

IsPageResponse(r) == ok(r) /\ ~r.body.hasErrors /\ r.body.hasUser

\* The nodes of responses 1..n, page after page.
RECURSIVE NodesServed(_)
NodesServed(n) ==
    IF n = 0 THEN <<>>
    ELSE NodesServed(n - 1) \o provider.responses[n].body.page.nodes

\* The provider has served N pages: hasNextPage on all but the last.
ServedAllPages ==
    LET n == Len(provider.responses)
    IN  /\ n > 0
        /\ \A i \in 1..n : IsPageResponse(provider.responses[i])
        /\ \A i \in 1..n : provider.responses[i].body.page.hasNextPage <=> i < n

\* C7: once the provider has served N pages, the last with hasNextPage false,
\* the call has returned after exactly N requests, and its result is the
\* nodes of the pages in request order, none dropped or duplicated.
C7_Pagination ==
    /\ ServedAllPages =>
        /\ fetch.pc = "done"
        /\ Len(provider.requests) = Len(provider.responses)
        /\ Len(fetch.result) = Len(NodesServed(Len(provider.responses)))
        /\ \A i \in 1..Len(fetch.result) :
                fetch.result[i] = toRepositoryData(NodesServed(Len(provider.responses))[i])
    /\ fetch.pc = "done" => ServedAllPages

C7_Witness ==
    /\ fetch.pc = "done"
    /\ Len(provider.requests) = 2
    /\ provider.responses[1].body.page.nodes = <<AwesomeProject, SimpleRepo>>
    /\ provider.responses[2].body.page.nodes = <<SimpleRepo>>
    /\ Len(fetch.result) = 3

\* error.message matches /pattern/i
Matches(error, pattern) == includes(toLowerCase(error.message), pattern)

MatchesOnly(error, pattern) ==
    \A q \in {"authentication failed", "rate limit", "not found"} :
        Matches(error, q) <=> q = pattern

\* C8: a 401 fails with an error matching "authentication failed", a 403 with
\* one matching "rate limit", a 2xx with data.user = null with one matching
\* "not found", and none of the three matches another kind's pattern.
C8_DistinguishableErrors ==
    FailedOnResponse =>
        /\ LastResponse.status = 401 => MatchesOnly(fetch.error, "authentication failed")
        /\ LastResponse.status = 403 => MatchesOnly(fetch.error, "rate limit")
        /\ (ok(LastResponse) /\ ~LastResponse.body.hasErrors /\ ~LastResponse.body.hasUser)
                => MatchesOnly(fetch.error, "not found")

\* The error is a rate-limit error, and carries what the headers gave.
IsRateLimitError(error, headers) ==
    /\ Matches(error, "rate limit") \/ error.code = Some("TOO_MANY_REQUESTS")
    /\ headers.rateLimitReset # None =>
            error.cause # None /\ error.cause[1].rateLimitReset # None
    /\ headers.retryAfter # None =>
            error.cause # None /\ error.cause[1].retryAfter # None

\* C9: on HTTP 403 or 429 the fetch fails with a rate-limit error, not the
\* generic request-failed error, carrying the reset timestamp and the
\* retry-after duration whenever the response has those headers.
C9_RateLimitError ==
    (FailedOnResponse /\ LastResponse.status \in {403, 429}) =>
        IsRateLimitError(fetch.error, LastResponse.headers)

(***************************************************************************)
(* Claims about the scan handler (checked under ScanSpec).                 *)
(***************************************************************************)
FailedAtFetch(p) == scans[p].pc = "failed" /\ scans[p].failedAt = "fetch"

\* C10: if the fetch step of a scan fails, that scan persists no session and
\* no repository row, and its caller receives the very error the fetch
\* produced (same kind, same message).
C10_FetchFailurePropagates ==
    \A p \in 1..Len(scans) :
        FailedAtFetch(p) =>
            /\ scans[p].sessionId = None
            /\ \A i \in 1..Len(db.sessions) : db.sessions[i].scan # p
            /\ \A i \in 1..Len(db.repositories) : db.repositories[i].scan # p
            /\ scans[p].error = scans[p].thrown
            /\ scans[p].result = None

C10_Witness ==
    \E p \in 1..Len(scans) :
        /\ FailedAtFetch(p)
        /\ scans[p].error.code = Some("TOO_MANY_REQUESTS")
        /\ scans[p].error.message = "GITHUB_RATE_LIMIT_EXCEEDED"
        /\ db = EmptyDb

(***************************************************************************)
(* Claims about what a scan persists (checked under ScanSpec).             *)
(***************************************************************************)
\* The repository rows linked to a session id.
RowsOf(sessionId) ==
    {i \in 1..Len(db.repositories) : db.repositories[i].sessionId = sessionId}

\* The session rows inserted by invocation p.
SessionsOf(p) == {i \in 1..Len(db.sessions) : db.sessions[i].scan = p}

\* C11: in every reachable state, a persisted session with totalRepositories > 0
\* has its repository rows: session and rows are persisted together or not at
\* all, also when the insert of the rows fails after the session insert.
C11_AtomicPersistence ==
    \A i \in 1..Len(db.sessions) :
        db.sessions[i].totalRepositories > 0 =>
            Cardinality(RowsOf(db.sessions[i].id)) = db.sessions[i].totalRepositories

\* The repositories the provider served to invocation p.
FetchedBy(p) == scans[p].response[1].body.page.nodes

Succeeded(p) == scans[p].pc = "done"

\* C12: a successful scan, also of an empty list, has persisted exactly one
\* session whose totalRepositories is the number of repositories fetched
\* (those without root entries included) and exactly that many rows linked to
\* it, and returns a result whose totalRepositories is the length of its
\* repositories list.
C12_CountsAgree ==
    \A p \in 1..Len(scans) :
        Succeeded(p) =>
            /\ Cardinality(SessionsOf(p)) = 1
            /\ \A i \in SessionsOf(p) :
                /\ db.sessions[i].id = scans[p].sessionId[1]
                /\ db.sessions[i].totalRepositories = Len(FetchedBy(p))
                /\ Cardinality(RowsOf(db.sessions[i].id)) = Len(FetchedBy(p))
                /\ \A j \in RowsOf(db.sessions[i].id) : db.repositories[j].scan = p
            /\ scans[p].result[1].totalRepositories = Len(FetchedBy(p))
            /\ scans[p].result[1].totalRepositories = Len(scans[p].result[1].repositories)

C12_Witness ==
    \E p, q \in 1..Len(scans) :
        /\ Succeeded(p) /\ Succeeded(q)
        /\ FetchedBy(p) = <<>>
        /\ scans[p].result[1].totalRepositories = 0
        /\ FetchedBy(q) = <<AwesomeProject, SimpleRepo>>
        /\ Cardinality(RowsOf(scans[q].sessionId[1])) = 2

\* The provider answered invocation p with a 2xx response whose data.user is null.
AnsweredNoUser(p) ==
    /\ scans[p].response # None
    /\ ok(scans[p].response[1])
    /\ ~scans[p].response[1].body.hasErrors
    /\ ~scans[p].response[1].body.hasUser

\* C13: a scan whose 2xx response has data.user = null fails with a not-found
\* error and persists no session; it never records an empty successful scan.
C13_UnknownUserNotFound ==
    \A p \in 1..Len(scans) :
        AnsweredNoUser(p) =>
            /\ scans[p].pc = "failed"
            /\ Matches(scans[p].error, "not found")
            /\ SessionsOf(p) = {}

(***************************************************************************)
(* Claims about getScanHistory (checked under HistorySpec).                *)
(***************************************************************************)
Returned(h) == history[h].pc = "done"

\* C14: the sessions getScanHistory returns are ordered by scan timestamp
\* descending, whatever the order the sessions were inserted in.
C14_NewestFirst ==
    \A h \in 1..Len(history) :
        Returned(h) =>
            LET result == history[h].result[1]
            IN  \A i, j \in 1..Len(result) :
                    i < j => result[i].scannedAt >= result[j].scannedAt

C14_Witness ==
    \E h \in 1..Len(history) :
        /\ Returned(h)
        /\ Len(history[h].result[1]) = 2
        /\ history[h].result[1][1].scannedAt > history[h].result[1][2].scannedAt
        /\ history[h].result[1][1].session < history[h].result[1][2].session

\* The values of a sequence.
Range(seq) == {seq[i] : i \in 1..Len(seq)}

\* C15: getScanHistory(u) returns exactly the sessions owned by u, each once,
\* and each with exactly the repository rows linked to it, each once (an empty
\* list when there are none); the result is empty when u has no session.
C15_OwnSessionsWithRows ==
    \A h \in 1..Len(history) :
        Returned(h) =>
            LET result == history[h].result[1]
                owned == {s \in Range(db.sessions) : s.userId = history[h].userId}
            IN  /\ {r.session : r \in Range(result)} = {s.id : s \in owned}
                /\ Len(result) = Cardinality(owned)
                /\ \A i \in 1..Len(result) :
                    /\ {r.id : r \in Range(result[i].repositories)}
                            = {db.repositories[j].id : j \in RowsOf(result[i].session)}
                    /\ Len(result[i].repositories) = Cardinality(RowsOf(result[i].session))
                /\ owned = {} => result = <<>>

C15_Witness ==
    \E h \in 1..Len(history) :
        /\ Returned(h)
        /\ Len(history[h].result[1]) = 1
        /\ history[h].result[1][1].repositories = <<>>
        /\ Len(db.sessions) = 2
        /\ Len(db.repositories) > 0

(***************************************************************************)
(* Claims about edge cases of the scorer (checked under ScorerSpec).       *)
(***************************************************************************)
AllZero(c) ==
    /\ c.quickPresentation = 0 /\ c.badges = 0 /\ c.installationSection = 0
    /\ c.usageSection = 0 /\ c.goalSection = 0 /\ c.roadmapSection = 0
    /\ c.licenceSection = 0 /\ c.total = 0

\* A file-type README.md entry whose content is the empty string.
EmptyReadme(entry) ==
    NamedReadme(entry) /\ entry.type = "blob" /\ entry.hasText /\ entry.text = ""

\* C16 as stated: when the root entries contain a file-type README.md entry
\* with the empty string as content, readmeExists is 10 and every component
\* of readmeContent, its total included, is 0.
C16_EmptyReadmeAmongEntries ==
    Scored("calculateRepositoryQuality") =>
        ((\E i \in 1..Len(entriesOf(repo)) : EmptyReadme(entriesOf(repo)[i]))
            => quality.readmeExists = 10 /\ AllZero(quality.readmeContent))

\* C16 amended: when the first file-type entry named "readme.md"
\* (case-insensitively) of the root entries has the empty string as content,
\* readmeExists is 10 and every component of readmeContent, its total
\* included, is 0.
C16_EmptyReadme ==
    Scored("calculateRepositoryQuality") =>
        ((\E i \in 1..Len(entriesOf(repo)) :
                /\ EmptyReadme(entriesOf(repo)[i])
                /\ \A j \in 1..(i - 1) :
                        ~(NamedReadme(entriesOf(repo)[j]) /\ entriesOf(repo)[j].type = "blob"))
            => quality.readmeExists = 10 /\ AllZero(quality.readmeContent))

C16_Witness ==
    /\ Scored("calculateRepositoryQuality")
    /\ repo.entries = <<ReadmeWith("")>>
    /\ quality.readmeExists = 10
    /\ quality.readmeContent.total = 0

\* C17: for a repository whose root tree is absent or has no entries,
\* calculateRepositoryQuality returns readmeExists = 0, readmeContent all
\* zero, licenseFile = 0 and totalScore = repositoryName.
C17_NoRootEntries ==
    Scored("calculateRepositoryQuality") =>
        ((~repo.hasObject \/ repo.entries = <<>>) =>
            /\ quality.readmeExists = 0
            /\ AllZero(quality.readmeContent)
            /\ quality.licenseFile = 0
            /\ quality.totalScore = quality.repositoryName)

C17_Witness ==
    /\ Scored("calculateRepositoryQuality")
    /\ ~repo.hasObject
    /\ quality.totalScore = 20

\* C18: badges is 10 exactly when the README text contains markdown image
\* syntax or a literal reference to a shields.io badge URL, and 0 otherwise.
C18_Badges ==
    Scored("calculateRepositoryQuality") =>
        quality.readmeContent.badges =
            IF \/ badgeRegexTest(ReadmeTextOf(repo))
               \/ includes(ReadmeTextOf(repo), "https://img.shields.io")
            THEN 10 ELSE 0

\* The README text calculateQualityScore analyses.
ScanReadmeTextOf(r) ==
    LET files == entriesOf(r)
        i == FindIndex([k \in 1..Len(files) |-> IsScanReadmeEntry(files[k])])
    IN  IF i # 0 /\ files[i].hasText THEN files[i].text ELSE ""

\* C19: quickPresentation is 10 exactly when the README text is longer than 50
\* characters, with no condition on the first line, in the score of
\* calculateRepositoryQuality and in the score of a scanned repository.
C19_QuickPresentation ==
    /\ Scored("calculateRepositoryQuality") =>
            quality.readmeContent.quickPresentation =
                IF Len(ReadmeTextOf(repo)) > 50 THEN 10 ELSE 0
    /\ Scored("calculateQualityScore") =>
            scanQuality.readmeContent.quickPresentation =
                IF Len(ScanReadmeTextOf(repo)) > 50 THEN 10 ELSE 0

InFlight == IF fetch.pc = "await" THEN 1 ELSE 0

\* C21: the first request carries a null cursor, every later request is sent
\* after the previous response was received and carries the endCursor of that
\* response, and at most one request is in flight.
C21_SequentialCursors ==
    /\ InFlight <= 1
    /\ Len(provider.requests) \in {Len(provider.responses), Len(provider.responses) + 1}
    /\ fetch.pc = "await" => Len(provider.requests) = Len(provider.responses) + 1
    /\ \A k \in 1..Len(provider.requests) :
        IF k = 1
        THEN provider.requests[k].cursor = None
        ELSE /\ k - 1 <= Len(provider.responses)
             /\ provider.requests[k].cursor
                    = provider.responses[k - 1].body.page.endCursor

C21_Witness ==
    /\ Len(provider.requests) = 2
    /\ provider.requests[1].cursor = None
    /\ provider.requests[2].cursor = Some("cursor1")
    /\ fetch.pc = "await"

\* The call has rejected.
Rejected == fetch.pc = "failed"

\* The request that failed got no response: the transport failed.
TransportFailed == Rejected /\ Len(provider.requests) = Len(provider.responses) + 1

\* What the failure at the last request should be reported as.
IsFailureOf(error) ==
    IF TransportFailed
    THEN error.message \in NetworkErrors
    ELSE LET r == provider.responses[Len(provider.responses)]
         IN  /\ ~IsPageResponse(r)
             /\ error = fetchErrorOf(r, fetch.username)

\* C22: a failure at page k is terminal: the call rejects with the error of
\* that failure (a transport failure with its own message), returns none of
\* the repositories of the earlier pages, and afterwards sends no request,
\* so the failed request is not retried.
C22_FailureIsTerminal ==
    /\ [](Rejected =>
            /\ fetch.error # NoError
            /\ IsFailureOf(fetch.error)
            /\ fetch.result = <<>>)
    /\ [][Rejected => (fetch' = fetch /\ provider' = provider)]_vars

C22_Witness ==
    /\ TransportFailed
    /\ Len(provider.requests) = 2
    /\ Len(fetch.repositories) > 0
    /\ fetch.result = <<>>
    /\ fetch.error.message = "Network error"

(***************************************************************************)
(* Claim about the termination of the paginated fetcher (checked under     *)
(* FetcherLiveSpec).                                                       *)
(***************************************************************************)
Running == fetch.pc \in {"request", "await", "delay"}

Completed == fetch.pc \in {"done", "failed"}

\* C23: when every request is answered and the provider reports
\* hasNextPage = false after finitely many pages, the call eventually
\* completes; after the response that reports hasNextPage = false it returns
\* at once, with no throttle delay and no further request.
C23_Terminates ==
    /\ Running ~> Completed
    /\ []((ServedAllPages /\ Len(provider.requests) = Len(provider.responses))
            => fetch.pc = "done")
    /\ [](fetch.pc = "delay" => LastResponse.body.page.hasNextPage)
    /\ [][fetch.pc = "done" => (fetch' = fetch /\ provider' = provider)]_vars

C23_Witness ==
    /\ fetch.pc = "done"
    /\ ServedAllPages
    /\ Len(provider.requests) = 2
    /\ Len(provider.responses) = 2

(***************************************************************************)
(* Claim about the classification of a response (checked under             *)
(* FetcherSpec).                                                           *)
(***************************************************************************)
\* The last response was handled and nothing was sent after it.
Handled ==
    /\ Len(provider.responses) > 0
    /\ Len(provider.requests) = Len(provider.responses)

FailedWith(message) == fetch.pc = "failed" /\ fetch.error.message = message

FailedWithPrefix(prefix) == fetch.pc = "failed" /\ startsWith(fetch.error.message, prefix)

\* C26: a response has exactly one outcome, decided in this order: status
\* 401, status 403, any other non-2xx status (the error carries the numeric
\* status), a body with an errors list, data.user = null, otherwise a page.
\* The outcome of a non-2xx response depends on nothing in its body, and a
\* 2xx body with both an errors list and no user is the API-errors failure.
C26_Precedence ==
    Handled =>
        LET r == LastResponse
        IN  IF r.status = 401
            THEN FailedWith("GitHub authentication failed. Invalid or expired token.")
            ELSE IF r.status = 403
            THEN FailedWithPrefix("GitHub API rate limit exceeded.")
            ELSE IF ~ok(r)
            THEN FailedWith("GitHub API request failed: " \o ToString(r.status)
                            \o " " \o r.statusText)
            ELSE IF r.body.hasErrors
            THEN FailedWithPrefix("GitHub GraphQL API errors: ")
            ELSE IF ~r.body.hasUser
            THEN FailedWith("GitHub user '" \o fetch.username \o "' not found")
            ELSE /\ fetch.pc \in {"delay", "request", "done"}
                 /\ fetch.error = NoError
                 /\ fetch.hasNextPage = r.body.page.hasNextPage

\* A 2xx response with an errors list and no user was the API-errors failure,
\* after a page of repositories had been accumulated.
C26_Witness ==
    /\ Handled
    /\ Len(provider.responses) = 2
    /\ ok(LastResponse)
    /\ LastResponse.body.hasErrors
    /\ ~LastResponse.body.hasUser
    /\ FailedWithPrefix("GitHub GraphQL API errors: ")

\* A non-2xx response whose body holds a page was a failure by its status.
C26_WitnessBodyIgnored ==
    /\ Handled
    /\ LastResponse.status = 502
    /\ LastResponse.body.hasUser
    /\ FailedWith("GitHub API request failed: 502 Bad Gateway")
    /\ fetch.repositories = <<>>

(***************************************************************************)
(* Claim about repeated cursors (checked under FetcherSpec).               *)
(***************************************************************************)
\* C27: within one call no two requests carry the same cursor, whatever the
\* provider answered (a next page reported with a null or a repeated
\* endCursor included), so no page is asked for twice.
C27_NoRepeatedCursor ==
    \A i, j \in 1..Len(provider.requests) :
        i # j => provider.requests[i].cursor # provider.requests[j].cursor

(***************************************************************************)
(* Claim about the score the scan attaches (checked under ScorerSpec:      *)
(* analyzeRepositoryQuality attaches calculateQualityScore(repo) to the    *)
(* record, and the scan persists what was attached).                       *)
(***************************************************************************)
\* C24: the score the scan handler attaches to a fetched record equals the
\* score calculateRepositoryQuality computes for the same record, component
\* by component; a repository named "test-project" gets repositoryName = 0.
C24_ScanScoreIsScorerScore ==
    (Scored("calculateRepositoryQuality") /\ Scored("calculateQualityScore")) =>
        /\ scanQuality.repositoryName = quality.repositoryName
        /\ scanQuality.readmeExists = quality.readmeExists
        /\ scanQuality.readmeContent = quality.readmeContent
        /\ scanQuality.licenseFile = quality.licenseFile
        /\ scanQuality.totalScore = quality.totalScore
        /\ (repo.name = "test-project" => scanQuality.repositoryName = 0)

(***************************************************************************)
(* Claim about the identifiers in the returned result (checked under       *)
(* ScanSpec).                                                              *)
(***************************************************************************)
\* The rows invocation p inserted, in the order of the insert.
InsertedBy(p) == SelectSeq(db.repositories, LAMBDA row : row.scan = p)

\* C25: every repository of the result a successful scan returns carries the
\* id the store gave its persisted row, so the ids of one result are
\* pairwise distinct.
C25_DurableIds ==
    \A p \in 1..Len(scans) :
        Succeeded(p) =>
            LET returned == scans[p].result[1].repositories
            IN  /\ Len(returned) = Len(InsertedBy(p))
                /\ \A i \in 1..Len(returned) :
                        /\ returned[i].id = InsertedBy(p)[i].id
                        /\ returned[i].repository.name = InsertedBy(p)[i].name
                /\ \A i, j \in 1..Len(returned) :
                        i # j => returned[i].id # returned[j].id

(***************************************************************************)
(* Claim about concurrent scans (checked under ScanSpec, whose invocations *)
(* interleave at every await).                                             *)
(***************************************************************************)
\* The sessions a repository row is linked to.
SessionsWithId(sessionId) ==
    {k \in 1..Len(db.sessions) : db.sessions[k].id = sessionId}

\* Invocation p scored a repository of this name with this score.
ScoredBy(p, name, qualityScore) ==
    \E i \in 1..Len(scans[p].analyzedRepositories) :
        /\ scans[p].analyzedRepositories[i].name = name
        /\ scans[p].analyzedRepositories[i].qualityScore = qualityScore

SuccessfulScansOf(userId) ==
    {p \in 1..Len(scans) : Succeeded(p) /\ scans[p].userId = userId}

ScorePairs(repositories) ==
    {<<repositories[i].name, repositories[i].qualityScore>> : i \in 1..Len(repositories)}

ReturnedPairs(p) ==
    LET returned == scans[p].result[1].repositories
    IN  {<<returned[i].repository.name, returned[i].repository.qualityScore>> :
            i \in 1..Len(returned)}

\* C29: after the scans, the history of an identity has exactly one session
\* for each successful scan the identity invoked, with the scan's account
\* handle, its totalRepositories and the (name, score) pairs it returned,
\* and no session for a scan that failed.
C29_HistoryIsSuccessfulScans ==
    \A h \in 1..Len(history) :
        Returned(h) =>
            LET result == history[h].result[1]
                successful == SuccessfulScansOf(history[h].userId)
            IN  /\ Len(result) = Cardinality(successful)
                /\ \A p \in successful :
                        \E i \in 1..Len(result) :
                            /\ result[i].session = scans[p].sessionId[1]
                            /\ result[i].username = scans[p].input.username
                            /\ result[i].totalRepositories
                                    = scans[p].result[1].totalRepositories
                            /\ ScorePairs(result[i].repositories) = ReturnedPairs(p)

(***************************************************************************)
(* Claim about sessions after logout (checked under AuthSpec).             *)
(***************************************************************************)
\* The header bears a token of a session that was created for the identity
\* the token names, that no successful logout has ended, and that has not
\* expired on day now.
BearsLiveSession(authorization, now) ==
    /\ ParsedHeaders[authorization] # None
    /\ \E i \in 1..Len(issued) :
            /\ issued[i].id = ParsedHeaders[authorization][1].sessionId
            /\ issued[i].userId = ParsedHeaders[authorization][1].userId
            /\ ~issued[i].loggedOut
            /\ issued[i].expiresAt > now

\* The header bears a token of a session a successful logout has ended.
BearsLoggedOutSession(authorization) ==
    /\ ParsedHeaders[authorization] # None
    /\ \E i \in 1..Len(issued) :
            /\ issued[i].id = ParsedHeaders[authorization][1].sessionId
            /\ issued[i].loggedOut

\* In this step a request of client c enters and is rejected or handled.
Enters(c) ==
    /\ requests'[c] # requests[c]
    /\ requests'[c].pc \in {"rejected", "handler"}

Unauthorized(request) ==
    /\ request.pc = "rejected"
    /\ request.error.code = Some("UNAUTHORIZED")
    /\ request.user = None

\* C30: a request that enters after a logout of its token's session has
\* succeeded is rejected with UNAUTHORIZED, whatever the procedure, and its
\* handler does not run; a request whose token is of a session that is
\* live and unexpired (another session of the same identity included) is
\* handled for that identity unless the session lookup itself fails; and a
\* handler starts only for a request with a live, unexpired session; a
\* header without a well-formed Bearer token never yields a user.
C30_LogoutEndsSession ==
    /\ [](\A c \in Clients : requests[c].pc = "rejected" => Unauthorized(requests[c]))
    /\ [](\A h \in MalformedHeaders :
            createContext(h, authDb.sessions, authDb.now) = NoContext)
    /\ [][\A c \in Clients :
            Enters(c) =>
                /\ BearsLoggedOutSession(requests'[c].authorization)
                        => Unauthorized(requests'[c])
                /\ (BearsLiveSession(requests'[c].authorization, authDb.now)
                        /\ ~requests'[c].queryFailed)
                        => /\ requests'[c].pc = "handler"
                           /\ requests'[c].procedure \in Procedures
                           /\ requests'[c].user =
                                Some([id |-> ParsedHeaders[requests'[c].authorization][1].userId])
                           /\ requests'[c].sessionId =
                                Some(ParsedHeaders[requests'[c].authorization][1].sessionId)
                /\ requests'[c].pc = "handler"
                        => BearsLiveSession(requests'[c].authorization, authDb.now)]_vars

\* The first session was logged out and the second session of the same
\* identity was not: a request with the token of the first was rejected, and
\* one with the token of the second is being handled.
C30_Witness ==
    /\ Len(issued) = 2
    /\ issued[1].loggedOut
    /\ ~issued[2].loggedOut
    /\ issued[1].userId = issued[2].userId
    /\ \E c, d \in Clients :
            /\ Unauthorized(requests[c])
            /\ ~requests[c].queryFailed
            /\ requests[c].authorization = Some("Bearer " \o Token(1, 1))
            /\ requests[d].pc = "handler"
            /\ requests[d].authorization = Some("Bearer " \o Token(2, 1))

====
